---- MODULE Spec2Model ----
(***************************************************************************)
(* A model of pymarc.field.Field (src/pymarc/field.py).                    *)
(*                                                                         *)
(* A Python string is a sequence of one-character strings, a Python list   *)
(* of strings a sequence of such sequences.  The Field instance is the     *)
(* set of attributes it has (has) and their values; every method is one    *)
(* action, and the outcome of the last call (its return value or the       *)
(* exception it raised) is kept in ret.                                    *)
(***************************************************************************)
EXTENDS Naturals, Sequences, FiniteSets

\* inst: whether a Field exists ("none" before the constructor ran, "live",
\*   or "failed" when the constructor raised and no instance was returned)
\* has: the attributes the instance has; tag .. subfields: their values
\* pos: the iteration cursor self.__pos
\* ret: the last call: the method, its arguments, its outcome, its value
\* ctor: the tag and data arguments the constructor was given
\* iteration: the caller's own iteration over the field: whether it asked
\*   for one (iter(field)) and the pairs its calls of next have returned
VARIABLES inst, has, tag, data, indicators, indicator1, indicator2,
          subfields, pos, ret, ctor, iteration

vars == <<inst, has, tag, data, indicators, indicator1, indicator2,
          subfields, pos, ret, ctor, iteration>>

(***************************************************************************)
(* Bounds of the model.                                                    *)
(***************************************************************************)
\* the largest number of (code, value) pairs a subfield list grows to
MaxPairs == 2
\* the largest number of indicators passed to the constructor
MaxInd == 3

(***************************************************************************)
(* Strings.                                                                *)
(***************************************************************************)
\* the byte of a character: Python 2 compares str values byte by byte
Ord(c) ==
    CASE c = " "  -> 32 [] c = "$"  -> 36 [] c = "-"  -> 45
      [] c = "0"  -> 48 [] c = "1"  -> 49 [] c = "2"  -> 50
      [] c = "4"  -> 52 [] c = "5"  -> 53 [] c = "6"  -> 54
      [] c = "9"  -> 57 [] c = "="  -> 61 [] c = "X"  -> 88
      [] c = "Y"  -> 89 [] c = "\\" -> 92 [] c = "a"  -> 97
      [] c = "b"  -> 98 [] c = "v"  -> 118 [] c = "x" -> 120
      [] c = "y"  -> 121 [] c = "z" -> 122
      [] c = "<US>" -> 31 [] c = "<RS>" -> 30

\* pymarc.constants: the subfield delimiter (0x1F) and the field terminator (0x1E)
SUBFIELD_INDICATOR == <<"<US>">>
END_OF_FIELD == <<"<RS>">>

RECURSIVE StrLess(_, _)
\* s < t for two str values: lexicographic on the bytes, a proper prefix is less
StrLess(s, t) ==
    IF t = <<>> THEN FALSE
    ELSE IF s = <<>> THEN TRUE
    ELSE IF Ord(Head(s)) # Ord(Head(t)) THEN Ord(Head(s)) < Ord(Head(t))
    ELSE StrLess(Tail(s), Tail(t))

\* '%03s' % tag: right-justified in a width of 3, padded with spaces (the 0
\* flag does nothing for %s); a longer tag is passed through
Pad3Zero(t) ==
    IF Len(t) >= 3 THEN t ELSE [i \in 1..(3 - Len(t)) |-> "0"] \o t
Pad3(t) ==
    IF Len(t) >= 3 THEN t ELSE [i \in 1..(3 - Len(t)) |-> " "] \o t

\* str.startswith
StartsWith(s, p) == Len(s) >= Len(p) /\ SubSeq(s, 1, Len(p)) = p

\* str.replace(old, new) for a one-character old
Replace(s, old, new) == [i \in 1..Len(s) |-> IF s[i] = old THEN new ELSE s[i]]

IsSpace(c) == c = " "

RECURSIVE LStrip(_)
LStrip(s) == IF s # <<>> /\ IsSpace(Head(s)) THEN LStrip(Tail(s)) ELSE s

RECURSIVE RStrip(_)
RStrip(s) ==
    IF s # <<>> /\ IsSpace(s[Len(s)]) THEN RStrip(SubSeq(s, 1, Len(s) - 1)) ELSE s

\* str.strip(): whitespace off both ends
StripLeftOnly(s) == LStrip(s)
Strip(s) == RStrip(LStrip(s))

(***************************************************************************)
(* Inputs.                                                                 *)
(***************************************************************************)
\* tags that normalize to a control tag, and tags that do not
ControlTagInputs ==
    { <<"0","0","1">>, <<"0","0","9">>, <<"0","0","9","9">>, <<"0","0">>,
      <<"6">>, <<"6","5">>, <<"1">>, <<>> }
DataTagInputs ==
    { <<"0","1","0">>, <<"2","4","5">>, <<"6","5","0">>, <<"6","5","0","0">> }

DataInputs == { <<>>, <<"a"," ","b">>, <<" ","X"," ">> }

\* indicator lists of every length up to MaxInd, and a second one of each
\* length up to two
IndPoolA == <<" ", "\\", "1", "0", " ">>
IndPoolB == <<"0", "1", " ", "\\", "1">>
IndicatorInputs ==
    { SubSeq(IndPoolA, 1, n) : n \in 0..MaxInd } \cup
    { SubSeq(IndPoolB, 1, n) : n \in 0..2 }

Codes == { <<"a">>, <<"v">> }
\* the (code, value) pairs that are added or passed in
PairInputs == { <<<<"a">>, <<"X">>>>, <<<<"v">>, <<" ","Y"," ">>>>,
                <<<<"a">>, <<" ","Y"," ">>>> }
\* the code tuples asked of get_subfields
CodeTuples == { <<<<"a">>>>, <<<<"v">>>>, <<<<"b">>>>, <<<<"v">>, <<"a">>>> }

RECURSIVE FlatLists(_)
\* the flat subfield lists of exactly n pairs
FlatLists(n) ==
    IF n = 0 THEN { <<>> }
    ELSE { l \o p : l \in FlatLists(n - 1), p \in PairInputs }

\* the subfield lists passed to the constructor: even ones of up to
\* MaxPairs - 1 pairs, and odd ones with an unpaired trailing code
SubfieldInputs ==
    LET even == UNION { FlatLists(n) : n \in 0..(MaxPairs - 1) }
        odd  == { l \o <<<<"a">>>> : l \in UNION { FlatLists(n) : n \in 0..(MaxPairs - 2) } }
    IN  even \cup odd

(***************************************************************************)
(* The methods' pure parts.                                                *)
(***************************************************************************)
\* is_control_field: self.tag < '010'
is_control_field(t) == StrLess(t, <<"0","1","0">>)

\* is_subject_field: self.tag.startswith('6')
is_subject_field(t) == StartsWith(t, <<"6">>)

\* __iter__: self.__pos = 0
iter_keeps_pos(p) == p
iter_pos(p) == 0

\* next, with self.subfields = sf and self.__pos = p (0-based): the outcome,
\* the pair returned and the cursor left behind
next_drops_tail(sf, p) ==
    IF p + 1 < Len(sf)
    THEN [out |-> "value", pair |-> <<sf[p + 1], sf[p + 2]>>, pos |-> p + 2]
    ELSE [out |-> "StopIteration", pair |-> <<>>, pos |-> p]
next_body(sf, p) ==
    IF p < Len(sf)
    THEN IF p + 1 < Len(sf)
         THEN [out |-> "value", pair |-> <<sf[p + 1], sf[p + 2]>>, pos |-> p + 2]
         ELSE [out |-> "IndexError", pair |-> <<>>, pos |-> p]
    ELSE [out |-> "StopIteration", pair |-> <<>>, pos |-> p]

RECURSIVE Drain(_, _, _)
\* the calls of next made by a for loop, until one raises
Drain(sf, p, acc) ==
    LET r == next_body(sf, p)
    IN  IF r.out = "value" THEN Drain(sf, r.pos, Append(acc, r.pair))
        ELSE [out |-> r.out, pairs |-> acc, pos |-> r.pos]

\* `for subfield in self`: __iter__, then next until it raises.  Without a
\* subfields attribute the first next raises AttributeError.
ForLoopDefaultsEmpty ==
    Drain(IF "subfields" \in has THEN subfields ELSE <<>>, iter_pos(pos), <<>>)
ForLoop ==
    IF "subfields" \in has
    THEN Drain(subfields, iter_pos(pos), <<>>)
    ELSE [out |-> "AttributeError", pairs |-> <<>>, pos |-> iter_pos(pos)]

RECURSIVE Join(_)
\* the concatenation of a list of strings (text += ... in a loop)
Join(ss) == IF ss = <<>> THEN <<>> ELSE Head(ss) \o Join(Tail(ss))

\* value, data field: string += subfield[1] for every pair
value_of(pairs) == Join([i \in 1..Len(pairs) |-> pairs[i][2]])

\* subfield[0] in codes
InCodes(c, codes) == \E i \in 1..Len(codes) : codes[i] = c

RECURSIVE get_subfields_last_wins(_, _)
get_subfields_last_wins(pairs, codes) ==
    IF pairs = <<>> THEN <<>>
    ELSE LET rest == get_subfields_last_wins(Tail(pairs), codes)
         IN  IF InCodes(Head(pairs)[1], codes) THEN rest \o <<Head(pairs)[2]>> ELSE rest

RECURSIVE get_subfields_of(_, _)
\* get_subfields: values.append(subfield[1]) for every pair whose code is in codes
get_subfields_of(pairs, codes) ==
    IF pairs = <<>> THEN <<>>
    ELSE LET rest == get_subfields_of(Tail(pairs), codes)
         IN  IF InCodes(Head(pairs)[1], codes) THEN <<Head(pairs)[2]>> \o rest ELSE rest

\* add_subfield: self.subfields.append(code); self.subfields.append(value)
add_subfield_prepends(sf, code, val) == <<code, val>> \o sf
add_subfield_of(sf, code, val) == Append(Append(sf, code), val)

\* as_marc21, data field
as_marc21_of(i1, i2, pairs) ==
    <<i1>> \o <<i2>>
    \o Join([i \in 1..Len(pairs) |-> SUBFIELD_INDICATOR \o pairs[i][1] \o pairs[i][2]])
    \o END_OF_FIELD

\* format_field, data field: one piece per pair, the whole stripped once
FormatPiece(t, p) ==
    IF ~is_subject_field(t) THEN <<" ">> \o p[2]
    ELSE IF p[1] \notin { <<"v">>, <<"x">>, <<"y">>, <<"z">> } THEN <<" ">> \o p[2]
    ELSE <<" ", "-", "-", " ">> \o p[2]

format_field_of(t, pairs) ==
    Strip(Join([i \in 1..Len(pairs) |-> FormatPiece(t, pairs[i])]))

\* __str__: the indicator loop runs over self.indicators
IndicatorText(c) == IF c \in { " ", "\\" } THEN <<"\\">> ELSE <<c>>

str_control(t, d) == <<"=">> \o t \o <<" ", " ">> \o Replace(d, " ", "\\")

str_data(t, inds, pairs) ==
    <<"=">> \o t \o <<" ", " ">>
    \o Join([i \in 1..Len(inds) |-> IndicatorText(inds[i])])
    \o Join([i \in 1..Len(pairs) |-> <<"$">> \o pairs[i][1] \o pairs[i][2]])

(***************************************************************************)
(* The state machine.                                                      *)
(***************************************************************************)
NoRet == [op |-> "", arg |-> <<>>, out |-> "", val |-> <<>>]

Init ==
    /\ inst = "none"
    /\ has = {}
    /\ tag = <<>>
    /\ data = <<>>
    /\ indicators = <<>>
    /\ indicator1 = ""
    /\ indicator2 = ""
    /\ subfields = <<>>
    /\ pos = 0
    /\ ret = NoRet
    /\ ctor = [tag |-> <<>>, data |-> <<>>]
    /\ iteration = [active |-> FALSE, yielded |-> <<>>]

Return(op, arg, out, val) ==
    ret' = [op |-> op, arg |-> arg, out |-> out, val |-> val]

\* indicators[i] (0-based) raises IndexError unless i < len(indicators)
HasIndexLenient(inds, i) == TRUE
HasIndex(inds, i) == i < Len(inds)

\* Field(tag, indicators, subfields, data); an omitted indicators or
\* subfields argument is the empty list
Construct(t, inds, sf, d) ==
    /\ inst = "none"
    /\ ctor' = [tag |-> t, data |-> d]
    /\ tag' = Pad3(t)
    /\ iteration' = iteration
    /\ pos' = pos
    /\ IF is_control_field(Pad3(t))
       THEN /\ data' = d
            /\ has' = { "tag", "data" }
            /\ inst' = "live"
            /\ UNCHANGED <<indicators, indicator1, indicator2, subfields>>
            /\ Return("__init__", <<t, inds, d>>, "None", <<>>)
       ELSE /\ indicators' = inds
            /\ indicator1' = IF Len(inds) >= 1 THEN inds[1] ELSE indicator1
            /\ indicator2' = IF Len(inds) >= 2 THEN inds[2] ELSE indicator2
            /\ data' = data
            /\ IF HasIndex(inds, 0) /\ HasIndex(inds, 1)
               THEN /\ subfields' = sf
                    /\ has' = { "tag", "indicators", "indicator1", "indicator2",
                                "subfields" }
                    /\ inst' = "live"
                    /\ Return("__init__", <<t, inds, d>>, "None", <<>>)
               ELSE /\ subfields' = subfields
                    /\ has' = { "tag", "indicators" }
                              \cup (IF Len(inds) >= 1 THEN { "indicator1" } ELSE {})
                    /\ inst' = "failed"
                    /\ Return("__init__", <<t, inds, d>>, "IndexError", <<>>)

__init__ ==
    \/ \E t \in ControlTagInputs, inds \in IndicatorInputs, d \in DataInputs :
          \E sf \in { <<>>, <<<<"a">>, <<"X">>>> } : Construct(t, inds, sf, d)
    \/ \E t \in DataTagInputs, inds \in IndicatorInputs, sf \in SubfieldInputs :
          Construct(t, inds, sf, <<>>)

\* iter(field), asked by a caller that goes on to call next itself
__iter__ ==
    /\ inst = "live"
    /\ pos' = iter_pos(pos)
    /\ has' = has \cup { "pos" }
    /\ iteration' = [active |-> TRUE, yielded |-> <<>>]
    /\ Return("__iter__", <<>>, "self", <<>>)
    /\ UNCHANGED <<inst, tag, data, indicators, indicator1, indicator2, subfields, ctor>>

\* field.next(), called by that caller
next ==
    /\ inst = "live"
    /\ UNCHANGED <<inst, has, tag, data, indicators, indicator1, indicator2,
                   subfields, ctor>>
    /\ IF "pos" \notin has \/ "subfields" \notin has
       THEN /\ Return("next", <<>>, "AttributeError", <<>>)
            /\ UNCHANGED <<pos, iteration>>
       ELSE LET r == next_body(subfields, pos)
            IN  /\ pos' = r.pos
                /\ iteration' =
                      IF r.out = "value"
                      THEN [iteration EXCEPT !.yielded = Append(@, r.pair)]
                      ELSE iteration
                /\ Return("next", <<>>, r.out, r.pair)

\* what a for loop over self leaves behind
AfterLoop(l) ==
    /\ pos' = l.pos
    /\ has' = has \cup { "pos" }
    /\ UNCHANGED <<inst, tag, data, indicators, indicator1, indicator2,
                   subfields, ctor, iteration>>

\* a method that loops over self and returns val when the loop ends normally
LoopAndReturn(op, arg, l, val) ==
    /\ AfterLoop(l)
    /\ IF l.out = "StopIteration"
       THEN Return(op, arg, "value", val)
       ELSE Return(op, arg, l.out, <<>>)

NoLoopReturn(op, arg, out, val) ==
    /\ Return(op, arg, out, val)
    /\ UNCHANGED <<inst, has, tag, data, indicators, indicator1, indicator2,
                   subfields, pos, ctor, iteration>>

__str__ ==
    /\ inst = "live"
    /\ IF is_control_field(tag)
       THEN NoLoopReturn("__str__", <<>>, "value", <<str_control(tag, data)>>)
       ELSE LET l == ForLoop
            IN  LoopAndReturn("__str__", <<>>, l, <<str_data(tag, indicators, l.pairs)>>)

get_subfields ==
    /\ inst = "live"
    /\ \E codes \in CodeTuples :
          LET l == ForLoop
          IN  LoopAndReturn("get_subfields", codes, l, get_subfields_of(l.pairs, codes))

__getitem__ ==
    /\ inst = "live"
    /\ \E code \in Codes \cup { <<"b">> } :
          LET l == ForLoop
              found == get_subfields_of(l.pairs, <<code>>)
          IN  /\ AfterLoop(l)
              /\ IF l.out # "StopIteration" THEN Return("__getitem__", <<code>>, l.out, <<>>)
                 ELSE IF Len(found) > 0
                      THEN Return("__getitem__", <<code>>, "value", <<found[1]>>)
                      ELSE Return("__getitem__", <<code>>, "None", <<>>)

value ==
    /\ inst = "live"
    /\ IF is_control_field(tag)
       THEN NoLoopReturn("value", <<>>, "value", <<data>>)
       ELSE LET l == ForLoop
            IN  LoopAndReturn("value", <<>>, l, <<value_of(l.pairs)>>)

add_subfield ==
    /\ inst = "live"
    /\ \E p \in PairInputs :
          IF "subfields" \notin has
          THEN NoLoopReturn("add_subfield", p, "AttributeError", <<>>)
          ELSE /\ Len(subfields) + 2 <= 2 * MaxPairs
               /\ subfields' = add_subfield_of(subfields, p[1], p[2])
               /\ Return("add_subfield", p, "None", <<>>)
               /\ UNCHANGED <<inst, has, tag, data, indicators, indicator1,
                              indicator2, pos, ctor, iteration>>

is_control_field_call ==
    /\ inst = "live"
    /\ NoLoopReturn("is_control_field", <<>>,
                    IF is_control_field(tag) THEN "True" ELSE "False", <<>>)

is_subject_field_call ==
    /\ inst = "live"
    /\ NoLoopReturn("is_subject_field", <<>>,
                    IF is_subject_field(tag) THEN "True" ELSE "False", <<>>)

as_marc21 ==
    /\ inst = "live"
    /\ IF is_control_field(tag)
       THEN NoLoopReturn("as_marc21", <<>>, "value", <<data \o END_OF_FIELD>>)
       ELSE LET l == ForLoop
            IN  LoopAndReturn("as_marc21", <<>>, l,
                              <<as_marc21_of(indicator1, indicator2, l.pairs)>>)

format_field ==
    /\ inst = "live"
    /\ IF is_control_field(tag)
       THEN NoLoopReturn("format_field", <<>>, "value", <<data>>)
       ELSE LET l == ForLoop
            IN  LoopAndReturn("format_field", <<>>, l, <<format_field_of(tag, l.pairs)>>)

Next ==
    \/ __init__
    \/ __iter__
    \/ next
    \/ __str__
    \/ get_subfields
    \/ __getitem__
    \/ value
    \/ add_subfield
    \/ is_control_field_call
    \/ is_subject_field_call
    \/ as_marc21
    \/ format_field

Spec == Init /\ [][Next]_vars

(***************************************************************************)
(* What the claims speak of, read off the stored state.                    *)
(***************************************************************************)
IsControl == inst = "live" /\ "data" \in has
IsDataField == inst = "live" /\ "subfields" \in has
EvenList == Len(subfields) % 2 = 0
NPairs == Len(subfields) \div 2
StoredPairs == [k \in 1..NPairs |-> <<subfields[2 * k - 1], subfields[2 * k]>>]
Threshold == <<"0", "1", "0">>
LoopingOps == { "value", "get_subfields", "__getitem__", "format_field",
                "as_marc21", "__str__" }
Errors == { "IndexError", "AttributeError" }

RECURSIVE ExpMarcBody(_)
\* delimiter, code, value for each of the first k stored pairs
ExpMarcBody(k) ==
    IF k = 0 THEN <<>>
    ELSE ExpMarcBody(k - 1) \o SUBFIELD_INDICATOR
         \o subfields[2 * k - 1] \o subfields[2 * k]

\* C1: as_marc21() on a data field with an even-length subfield list returns
\* indicator1, indicator2, then delimiter + code + value for every stored
\* pair in order, then one field terminator, whatever add_subfield calls,
\* serializer calls and partly consumed iterations came before; on a control
\* field it returns data and one field terminator.
C1_AsMarc21 ==
    ret.op = "as_marc21" =>
        /\ (IsDataField /\ EvenList) =>
               /\ ret.out = "value"
               /\ ret.val = << <<indicators[1], indicators[2]>>
                               \o ExpMarcBody(NPairs) \o END_OF_FIELD >>
        /\ IsControl =>
               /\ ret.out = "value"
               /\ ret.val = << data \o END_OF_FIELD >>

\* as_marc21 was called while a caller's iteration had returned one pair of
\* a list of at least two
C1_Witness ==
    /\ ret.op = "as_marc21"
    /\ ret.out = "value"
    /\ IsDataField
    /\ NPairs >= 2
    /\ iteration.active
    /\ Len(iteration.yielded) = 1

\* C2 as stated: for every constructor tag t, t < "010" gives a control field
\* whose value() is the data argument, and t >= "010" gives a field that is
\* not a control field and is a subject field exactly when t starts with '6'.
C2_RawTagDecides ==
    inst = "live" =>
        IF StrLess(ctor.tag, Threshold)
        THEN /\ ret.op = "is_control_field" => ret.out = "True"
             /\ ret.op = "value" => (ret.out = "value" /\ ret.val = <<ctor.data>>)
        ELSE /\ ret.op = "is_control_field" => ret.out = "False"
             /\ ret.op = "is_subject_field" =>
                    (ret.out = "True" <=> (ctor.tag # <<>> /\ ctor.tag[1] = "6"))

\* C2 amended: a tag shorter than 3 characters always gives a control field;
\* for a tag of 3 or more characters the order of t against "010" decides as
\* the claim says.
C2_PaddedTagDecides ==
    inst = "live" =>
        IF StrLess(ctor.tag, Threshold) \/ Len(ctor.tag) < 3
        THEN /\ ret.op = "is_control_field" => ret.out = "True"
             /\ ret.op = "value" => (ret.out = "value" /\ ret.val = <<ctor.data>>)
        ELSE /\ ret.op = "is_control_field" => ret.out = "False"
             /\ ret.op = "is_subject_field" =>
                    (ret.out = "True" <=> ctor.tag[1] = "6")

\* is_control_field() answered for a short tag that is not below "010"
C2_Witness ==
    /\ inst = "live"
    /\ ret.op = "is_control_field"
    /\ Len(ctor.tag) < 3
    /\ ~StrLess(ctor.tag, Threshold)

RECURSIVE ExpSelect(_, _)
\* the values of the first k stored pairs whose code is among codes
ExpSelect(k, codes) ==
    IF k = 0 THEN <<>>
    ELSE ExpSelect(k - 1, codes)
         \o (IF \E i \in DOMAIN codes : codes[i] = subfields[2 * k - 1]
             THEN << subfields[2 * k] >> ELSE <<>>)

\* C3: get_subfields(codes) on a data field with an even-length list returns
\* the values of the pairs whose code is among codes, in stored order with
\* duplicates kept; field[code] returns the first of them, or None.
C3_Lookup ==
    (IsDataField /\ EvenList) =>
        /\ ret.op = "get_subfields" =>
               (ret.out = "value" /\ ret.val = ExpSelect(NPairs, ret.arg))
        /\ ret.op = "__getitem__" =>
               LET e == ExpSelect(NPairs, ret.arg)
               IN  IF e = <<>> THEN ret.out = "None" /\ ret.val = <<>>
                   ELSE ret.out = "value" /\ ret.val = << e[1] >>

\* get_subfields returned two different values
C3_Witness ==
    /\ IsDataField
    /\ EvenList
    /\ ret.op = "get_subfields"
    /\ Len(ret.val) = 2
    /\ ret.val[1] # ret.val[2]

\* C4: a successful add_subfield(code, value) leaves the stored list equal to
\* the list before it followed by code and value: two more elements, every
\* earlier element in place, an even length still even, and tag, indicator1
\* and indicator2 as they were.
C4_AppendOnly ==
    [][ (ret'.op = "add_subfield" /\ ret'.out = "None") =>
            /\ Len(subfields') = Len(subfields) + 2
            /\ \A i \in 1..Len(subfields) : subfields'[i] = subfields[i]
            /\ subfields'[Len(subfields) + 1] = ret'.arg[1]
            /\ subfields'[Len(subfields) + 2] = ret'.arg[2]
            /\ (Len(subfields) % 2 = 0 => Len(subfields') % 2 = 0)
            /\ tag' = tag
            /\ indicator1' = indicator1
            /\ indicator2' = indicator2 ]_vars

\* add_subfield succeeded on a list that already held a pair
C4_Witness ==
    /\ IsDataField
    /\ ret.op = "add_subfield"
    /\ ret.out = "None"
    /\ EvenList
    /\ NPairs >= 2

RECURSIVE ExpDollar(_)
\* '$' + code + value for each of the first k stored pairs
ExpDollar(k) ==
    IF k = 0 THEN <<>>
    ELSE ExpDollar(k - 1) \o <<"$">> \o subfields[2 * k - 1] \o subfields[2 * k]

ExpIndicator(c) == IF c = " " \/ c = "\\" THEN <<"\\">> ELSE <<c>>

\* C5: str(field) of a data field built from two or more indicators and an
\* even-length list is '=' + tag + two spaces, exactly the two characters
\* for indicator1 and indicator2 (space and backslash as backslash), then
\* '$' + code + value per stored pair; of a control field '=' + tag + two
\* spaces + data with every space replaced by a backslash.
C5_Str ==
    ret.op = "__str__" =>
        /\ (IsDataField /\ EvenList /\ Len(indicators) >= 2) =>
               /\ ret.out = "value"
               /\ ret.val = << <<"=">> \o tag \o <<" ", " ">>
                               \o ExpIndicator(indicator1) \o ExpIndicator(indicator2)
                               \o ExpDollar(NPairs) >>
        /\ IsControl =>
               /\ ret.out = "value"
               /\ ret.val = << <<"=">> \o tag \o <<" ", " ">>
                               \o [i \in 1..Len(data) |->
                                     IF data[i] = " " THEN "\\" ELSE data[i]] >>

RECURSIVE ExpFormat(_)
\* ' -- ' + value for a subject field's v, x, y, z pairs, ' ' + value otherwise
ExpFormat(k) ==
    IF k = 0 THEN <<>>
    ELSE ExpFormat(k - 1)
         \o (IF tag[1] = "6" /\ subfields[2 * k - 1] \in { <<"v">>, <<"x">>, <<"y">>, <<"z">> }
             THEN <<" ", "-", "-", " ">> ELSE <<" ">>)
         \o subfields[2 * k]

\* s without the spaces at its two ends
ExpTrim(s) ==
    LET keep == { i \in 1..Len(s) : s[i] # " " }
    IN  IF keep = {} THEN <<>>
        ELSE SubSeq(s, CHOOSE i \in keep : \A j \in keep : i <= j,
                       CHOOSE i \in keep : \A j \in keep : i >= j)

\* C6: format_field() of a data field with an even-length list is the
\* concatenation over the stored pairs of ' -- ' + value (subject field and
\* code v, x, y or z) or ' ' + value, stripped at its two outer ends only; of
\* a control field it is the data, as value() is.
C6_FormatField ==
    ret.op = "format_field" =>
        /\ (IsDataField /\ EvenList) =>
               (ret.out = "value" /\ ret.val = << ExpTrim(ExpFormat(NPairs)) >>)
        /\ IsControl => (ret.out = "value" /\ ret.val = << data >>)

\* format_field ran on a subject field whose second pair has code v
C6_Witness ==
    /\ ret.op = "format_field"
    /\ ret.out = "value"
    /\ IsDataField
    /\ tag[1] = "6"
    /\ NPairs >= 2
    /\ subfields[3] = <<"v">>

C7_Fails ==
    (IsDataField /\ ~EvenList) =>
        /\ ret.op \in LoopingOps => (ret.out = "IndexError" /\ ret.val = <<>>)
        /\ ret.op = "next" => ret.out # "StopIteration"

C7_Step ==
    /\ (ret'.out = "IndexError" /\ ret'.op # "__init__") => subfields' = subfields
    /\ (IsDataField /\ ~EvenList /\ "pos" \in has /\ pos = Len(subfields) - 1
          /\ ret'.op = "next") => ret'.out = "IndexError"

\* C7: on a data field whose subfield list has odd length every method that
\* loops over the subfields raises (IndexError) instead of returning, a
\* caller's iteration returns the whole pairs and then never stops normally,
\* and the failed call leaves the stored list as it was.
C7_OddListFails == []C7_Fails /\ [][C7_Step]_vars

\* value() raised on a list of three elements
C7_Witness ==
    /\ IsDataField
    /\ Len(subfields) = 3
    /\ ret.op = "value"
    /\ ret.out = "IndexError"

\* C8: the constructor, given a tag that does not normalize to a control tag
\* and fewer than two indicators, raises and returns no instance (no method
\* ever runs on it); given a control tag it never fails.
C8_Construction ==
    /\ ret.op = "__init__" =>
           /\ (~StrLess(tag, Threshold) /\ Len(ret.arg[2]) < 2) =>
                  (inst = "failed" /\ ret.out = "IndexError")
           /\ StrLess(tag, Threshold) => (inst = "live" /\ ret.out = "None")
    /\ inst = "failed" => ret.op = "__init__"
    /\ inst = "live" => ("data" \in has \/ { "indicator1", "indicator2" } \subseteq has)

\* the constructor was given a data tag and one indicator
C8_Witness ==
    /\ ret.op = "__init__"
    /\ ~StrLess(tag, Threshold)
    /\ Len(ret.arg[2]) = 1
    /\ inst = "failed"

C9_Variant ==
    inst = "live" =>
        /\ ("data" \in has) # ("subfields" \in has)
        /\ ret.op = "is_control_field" => (ret.out = "True" <=> "data" \in has)
        /\ (IsControl /\ ret.op \in { "add_subfield", "get_subfields", "__getitem__", "next" }) =>
               (ret.out \in Errors /\ ret.val = <<>>)

C9_Frame ==
    inst = "live" =>
        /\ ("data" \in has') = ("data" \in has)
        /\ ("subfields" \in has') = ("subfields" \in has)
        /\ tag' = tag
        /\ data' = data

\* C9: the variant never changes (is_control_field() always answers as the
\* construction decided), and add_subfield, get_subfields, field[code] and
\* next on a control field raise, return nothing, leave tag and data as they
\* were and create no subfield list.
C9_VariantFixed == []C9_Variant /\ [][C9_Frame]_vars

\* add_subfield was called on a control field
C9_Witness ==
    /\ IsControl
    /\ ret.op = "add_subfield"
    /\ ret.out = "AttributeError"

\* C10: lookups and serializers called between two steps of a caller's
\* iteration change nothing, so when that iteration ends normally it has
\* returned every stored pair exactly once, in order.
C10_IterationUndisturbed ==
    (IsDataField /\ EvenList /\ iteration.active
       /\ ret.op = "next" /\ ret.out = "StopIteration") =>
        iteration.yielded = StoredPairs

====
